---- MODULE Spec2Model ----
(***************************************************************************)
(* HealthSync: the wellness-score / energy-level / habit-streak / reward   *)
(* logic of src/main.py over the tables of src/database.py.                *)
(*                                                                         *)
(* Numbers.  DECIMAL(5,2) columns are integers counting hundredths         *)
(* (50.0 is 5000).  Inside update_energy_level the Python values are kept  *)
(* exactly, in units of 1/2400 of a point (a hundredth is 24 units), and   *)
(* are rounded to hundredths where the code stores them.                   *)
(* Dates are day numbers.  A nullable value is <<>> (NULL / None) or <<v>>.*)
(*                                                                         *)
(* Handlers.  Each handler is one action, run as one transaction, except   *)
(* complete_habit, which is two: its reads (the habit, date.today(), the   *)
(* day's completion record) and then its writes and commit, so that two    *)
(* calls can interleave as two READ COMMITTED transactions do.  A handler  *)
(* that raises rolls back and leaves the tables as they were.              *)
(***************************************************************************)
EXTENDS Integers, Sequences, FiniteSets, TLC

\* ---------------------------------------------------------------- bounds
\* daily_data holds the dates 0..MaxDay
MaxDay == 2
\* date.today() runs over 0..MaxServiceDay where the whole service runs
MaxServiceDay == 1
\* date.today() runs over 0..MaxHabitDay where only habits are completed
MaxHabitDay == 3
\* complete_habit calls that find their habit are counted up to this cap
MaxCompletions == 3
\* date.today() runs over 0..MaxStreakDay where one habit is completed day
\* after day, by up to MaxStreakCalls calls
MaxStreakDay == 7
MaxStreakCalls == 8

\* ------------------------------------------------------- program constants
\* LIMIT 7 of the streak query
StreakLimit == 7
\* INTERVAL '7 days' of the energy window
WindowDays == 7
\* the neutral default 50.0, in hundredths
DefaultEnergy == 5000
\* LEAST(energy_level + 3, 100), in hundredths
EnergyBonus == 300
EnergyCap == 10000
\* sync_coins = sync_coins + 2
CoinReward == 2
\* units of 1/2400 point: one point, and the 25-point ceiling of a sub-score
Unit == 2400
Hundredth == 24

NULL == <<>>
Some(v) == <<v>>
IsNull(x) == x = NULL
Coalesce(x, d) == IF x = NULL THEN d ELSE x[1]
\* Python's `x or d` with d the falsy value of x's type (0, False): None and
\* the falsy value both give d, any other value gives itself
PyOr(x, d) == IF x = NULL THEN d ELSE x[1]

Min2(a, b) == IF a <= b THEN a ELSE b
Max2(a, b) == IF a >= b THEN a ELSE b

\* ------------------------------------------------------------ identifiers
\* the one registered user (create_user) and an id no user has
Users == {1}
UserIds == {1, 2}
\* the user's starter habit (create_user) and an id no habit has
Habits == {1}
HabitIds == {1, 2}
HabitOwner == [h \in Habits |-> 1]
Days == 0 .. MaxDay
\* two request handlers may run complete_habit at once
Workers == {1, 2}

\* CHECK(mood IN (...)) of daily_data
Moods == {"excellent", "good", "neutral", "bad", "terrible"}

VARIABLES
  today,              \* date.today()
  energy_level,       \* users.energy_level, hundredths
  sync_coins,         \* users.sync_coins
  daily_data,         \* [user, date] -> NoRow or the row
  user_habits,        \* habit -> [current_streak, longest_streak]
  habit_completions,  \* the rows of habit_completions in id order
  pc,                 \* worker -> "idle" | "selected" (complete_habit in flight)
  local,              \* worker -> the locals of its complete_habit call
  ncalls,             \* complete_habit calls that found their habit
  resp                \* the last handler that returned and its HTTP status

vars == <<today, energy_level, sync_coins, daily_data, user_habits,
          habit_completions, pc, local, ncalls, resp>>

NoRow == [present |-> FALSE]
NoLocal == [user_id |-> 0, habit_id |-> 0, today |-> 0, existing |-> 0]
Resp(op, st) == [op |-> op, status |-> st]

\* ------------------------------------------------- update_energy_level
\* A Python number: its type and its exact value in units of 1/2400.
\* psycopg2 returns INTEGER as int and DECIMAL as decimal.Decimal; int / int
\* is float; float + Decimal raises TypeError.
PyInt(v) == [t |-> "int", v |-> v]
PyFloat(v) == [t |-> "float", v |-> v]
PyDecimal(v) == [t |-> "Decimal", v |-> v]
PyTypeError == [t |-> "TypeError", v |-> 0]

\* min(x, 25): the first argument unless 25 < x
PyMin25(x) == IF 25 * Unit < x.v THEN PyInt(25 * Unit) ELSE x

\* a + b
PyAdd(a, b) ==
  IF a.t = "TypeError" \/ b.t = "TypeError" THEN PyTypeError
  ELSE IF {a.t, b.t} = {"float", "Decimal"} THEN PyTypeError
  ELSE [t |-> IF "float" \in {a.t, b.t} THEN "float"
              ELSE IF "Decimal" \in {a.t, b.t} THEN "Decimal" ELSE "int",
        v |-> a.v + b.v]

\* storing a non-negative value in a DECIMAL(5,2) column: round half up
ToHundredths(u) == (u + 12) \div Hundredth

\* the SELECT ... COALESCE(...) of the day's row
Facts(row) ==
  [steps |-> row.steps, water |-> row.water_ml,
   sleep |-> Coalesce(row.sleep_hours, 0),
   breakfast |-> row.breakfast, lunch |-> row.lunch, dinner |-> row.dinner,
   mood |-> Coalesce(row.mood, "neutral")]

\* steps / 10000 * 25 is steps / 400 points
StepsScore(data) ==
  IF data.steps > 0 THEN PyMin25(PyFloat(data.steps * 6)) ELSE PyInt(0)
\* water / 2000 * 25 is water / 80 points
WaterScore(data) ==
  IF data.water > 0 THEN PyMin25(PyFloat(data.water * 30)) ELSE PyInt(0)
\* sleep / 8 * 25 with sleep in hundredths of an hour is sleep / 32 points
SleepScore(data) ==
  IF data.sleep > 0 THEN PyMin25(PyDecimal(data.sleep * 75)) ELSE PyInt(0)
MealsCount(data) ==
  (IF data.breakfast THEN 1 ELSE 0) + (IF data.lunch THEN 1 ELSE 0)
    + (IF data.dinner THEN 1 ELSE 0)
\* (meals_count / 3) * 25 points is meals_count * 20000 units
MealsScore(data) ==
  IF MealsCount(data) > 0 THEN PyFloat(MealsCount(data) * 20000) ELSE PyInt(0)
\* mood_scores.get(mood, 15)
MoodScore(data) ==
  PyInt(Unit * (CASE data.mood = "excellent" -> 25
                  [] data.mood = "good" -> 20
                  [] data.mood = "neutral" -> 15
                  [] data.mood = "bad" -> 5
                  [] data.mood = "terrible" -> 0
                  [] OTHER -> 15))
\* steps_score + water_score + sleep_score + meals_score + mood_score
OverallBalance(data) ==
  PyAdd(PyAdd(PyAdd(PyAdd(StepsScore(data), WaterScore(data)),
                    SleepScore(data)), MealsScore(data)), MoodScore(data))

\* faulty variant of Scored: the new balance is added onto the stored one
ScoredPatched(row) ==
  LET data == Facts(row) IN
  [row EXCEPT !.activity_score = ToHundredths(StepsScore(data).v),
              !.nutrition_score = ToHundredths(MealsScore(data).v),
              !.recovery_score = ToHundredths(SleepScore(data).v),
              !.mental_score = ToHundredths(MoodScore(data).v),
              !.overall_balance = @ + ToHundredths(OverallBalance(data).v)]
\* the UPDATE daily_data SET activity_score = ... of the day's row
Scored(row) ==
  LET data == Facts(row) IN
  [row EXCEPT !.activity_score = ToHundredths(StepsScore(data).v),
              !.nutrition_score = ToHundredths(MealsScore(data).v),
              !.recovery_score = ToHundredths(SleepScore(data).v),
              !.mental_score = ToHundredths(MoodScore(data).v),
              !.overall_balance = ToHundredths(OverallBalance(data).v)]

\* WHERE user_id = u AND date >= d - INTERVAL '7 days'
WindowDates(dd, u, d) ==
  {x \in DOMAIN dd[u] : dd[u][x].present /\ x >= d - WindowDays}

RECURSIVE SumBalance(_, _, _)
SumBalance(dd, u, S) ==
  IF S = {} THEN 0
  ELSE LET x == CHOOSE x \in S : TRUE
       IN dd[u][x].overall_balance + SumBalance(dd, u, S \ {x})

\* float(AVG(overall_balance)) stored in DECIMAL(5,2); `if result['avg_energy']`
\* is false for NULL and for a zero average
NewEnergy(dd, u, d) ==
  LET W == WindowDates(dd, u, d)
      n == Cardinality(W)
      s == SumBalance(dd, u, W)
  IN IF n = 0 \/ s = 0 THEN DefaultEnergy
     ELSE (2 * s + n) \div (2 * n)

\* faulty variant of UpdateEnergyLevel: the new mean is averaged with the
\* stored energy_level instead of replacing it
UpdateEnergyLevelSmoothed(dd, en, u, d) ==
  IF ~dd[u][d].present
  THEN [raised |-> FALSE, daily_data |-> dd, energy_level |-> en]
  ELSE IF OverallBalance(Facts(dd[u][d])).t = "TypeError"
  THEN [raised |-> TRUE, daily_data |-> dd, energy_level |-> en]
  ELSE LET dd1 == [dd EXCEPT ![u][d] = Scored(dd[u][d])]
       IN [raised |-> FALSE, daily_data |-> dd1,
           energy_level |-> [en EXCEPT ![u] = (@ + NewEnergy(dd1, u, d)) \div 2]]

\* update_energy_level(user_id, date_str, cursor) on tables dd, en
UpdateEnergyLevel(dd, en, u, d) ==
  IF ~dd[u][d].present
  THEN [raised |-> FALSE, daily_data |-> dd, energy_level |-> en]
  ELSE IF OverallBalance(Facts(dd[u][d])).t = "TypeError"
  THEN [raised |-> TRUE, daily_data |-> dd, energy_level |-> en]
  ELSE LET dd1 == [dd EXCEPT ![u][d] = Scored(dd[u][d])]
       IN [raised |-> FALSE, daily_data |-> dd1,
           energy_level |-> [en EXCEPT ![u] = NewEnergy(dd1, u, d)]]

\* ------------------------------------------------------ daily_data rows
\* the column defaults of CREATE TABLE daily_data
DefaultRow ==
  [present |-> TRUE, steps |-> 0, water_ml |-> 0, sleep_hours |-> Some(0),
   breakfast |-> FALSE, lunch |-> FALSE, dinner |-> FALSE, mood |-> NULL,
   activity_score |-> 0, nutrition_score |-> 0, recovery_score |-> 0,
   mental_score |-> 0, overall_balance |-> 0]

\* CHECK(mood IN (...)): NULL passes
MoodAllowed(m) == m = NULL \/ m[1] \in Moods

\* INSERT INTO daily_data (..., steps, water_ml, mood, sleep_hours, ...)
InsertedRow(data) ==
  [DefaultRow EXCEPT !.steps = PyOr(data.steps, 0),
                     !.water_ml = PyOr(data.water_ml, 0),
                     !.mood = data.mood,
                     !.sleep_hours = data.sleep_hours,
                     !.breakfast = PyOr(data.breakfast, FALSE),
                     !.lunch = PyOr(data.lunch, FALSE),
                     !.dinner = PyOr(data.dinner, FALSE)]

\* update_fields: the fields of the body that are not None (notes is not
\* modelled and is None)
UpdateFields(data) == {f \in DOMAIN data : data[f] # NULL}
\* the %s of the UPDATE: one for each field and the one of WHERE id = %s
\* ("updated_at = CURRENT_TIMESTAMP" has none)
UpdatePlaceholders(data) == Cardinality(UpdateFields(data)) + 1
\* len(values): one for each field, then existing['id'], data.user_id, today
UpdateValues(data) == Cardinality(UpdateFields(data)) + 3
\* faulty variant of ExecuteRaises: values left over are ignored
ExecuteIgnoresExtra(placeholders, values) == placeholders > values
\* cursor.execute(sql, values) formats the values into the %s of sql and raises
\* TypeError ("not all arguments converted") when values are left over, and
\* IndexError when there are too few
ExecuteRaises(placeholders, values) == placeholders # values

\* UPDATE daily_data SET <the fields that are not None>
UpdatedRow(row, data) ==
  [row EXCEPT !.steps = Coalesce(data.steps, @),
              !.water_ml = Coalesce(data.water_ml, @),
              !.mood = IF data.mood = NULL THEN @ ELSE data.mood,
              !.sleep_hours = IF data.sleep_hours = NULL THEN @ ELSE data.sleep_hours,
              !.breakfast = Coalesce(data.breakfast, @),
              !.lunch = Coalesce(data.lunch, @),
              !.dinner = Coalesce(data.dinner, @)]

\* request bodies of POST /daily (DailyDataCreate), sleep in hundredths of an hour
Body(st, w, m, sl, b, l, d) ==
  [steps |-> st, water_ml |-> w, mood |-> m, sleep_hours |-> sl,
   breakfast |-> b, lunch |-> l, dinner |-> d]
\* only user_id (and date) given: the pydantic defaults
BodyDefaults ==
  Body(Some(0), Some(0), NULL, NULL, Some(FALSE), Some(FALSE), Some(FALSE))
\* steps=5000, water=1000, sleep=6, breakfast, lunch, mood good
BodyExample ==
  Body(Some(5000), Some(1000), Some("good"), Some(600), Some(TRUE), Some(TRUE), Some(FALSE))
\* every input at or over its ceiling
BodyFull ==
  Body(Some(20000), Some(3000), Some("excellent"), Some(900), Some(TRUE), Some(TRUE), Some(TRUE))
\* steps, water and meals at their ceilings, no sleep logged, mood good: 95
BodyGood ==
  Body(Some(20000), Some(3000), Some("good"), NULL, Some(TRUE), Some(TRUE), Some(TRUE))
\* nothing done and the worst mood
BodyTerrible ==
  Body(Some(0), Some(0), Some("terrible"), Some(0), Some(FALSE), Some(FALSE), Some(FALSE))
\* every field null but sleep_hours = 6
BodySleep == Body(NULL, NULL, NULL, Some(600), NULL, NULL, NULL)
\* every field null
BodyNulls == Body(NULL, NULL, NULL, NULL, NULL, NULL, NULL)
\* a mood outside the CHECK list
BodyBadMood ==
  Body(Some(0), Some(0), Some("happy"), NULL, Some(FALSE), Some(FALSE), Some(FALSE))

\* A request is the JSON object sent: a function from the fields it supplies to
\* their values (NULL for an explicit null).  DailyDataCreate gives a field the
\* request leaves out its declared default: 0, False or None.
Fields ==
  {"steps", "water_ml", "mood", "sleep_hours", "breakfast", "lunch", "dinner"}
FieldDefault ==
  Body(Some(0), Some(0), NULL, NULL, Some(FALSE), Some(FALSE), Some(FALSE))
FieldOf(req, f) == IF f \in DOMAIN req THEN req[f] ELSE FieldDefault[f]
DailyDataCreate(req) ==
  Body(FieldOf(req, "steps"), FieldOf(req, "water_ml"), FieldOf(req, "mood"),
       FieldOf(req, "sleep_hours"), FieldOf(req, "breakfast"),
       FieldOf(req, "lunch"), FieldOf(req, "dinner"))
\* {} (only user_id and date), {"sleep_hours": 6}, {"steps": -5}
ReqNone == [f \in {} |-> NULL]
ReqSleep == [sleep_hours |-> Some(600)]
ReqNegativeSteps == [steps |-> Some(-5)]
\* every field sent as null
ReqNulls == BodyNulls
PartialRequests == {ReqNone, ReqSleep, ReqNulls}

DailyBodies ==
  {BodyDefaults, BodyExample, BodyFull, BodyGood, BodyTerrible, BodySleep,
   BodyNulls, BodyBadMood, DailyDataCreate(ReqSleep),
   DailyDataCreate(ReqNegativeSteps)}

\* ------------------------------------------------------------- handlers
Init ==
  /\ today = 0
  /\ energy_level = [u \in Users |-> DefaultEnergy]
  /\ sync_coins = [u \in Users |-> 0]
  /\ daily_data = [u \in Users |-> [d \in Days |-> NoRow]]
  /\ user_habits = [h \in Habits |-> [current_streak |-> 0, longest_streak |-> 0]]
  /\ habit_completions = <<>>
  /\ pc = [w \in Workers |-> "idle"]
  /\ local = [w \in Workers |-> NoLocal]
  /\ ncalls = 0
  /\ resp = Resp("none", 0)

\* date.today() moves on
AdvanceDay(limit) ==
  /\ today < limit
  /\ today' = today + 1
  /\ UNCHANGED <<energy_level, sync_coins, daily_data, user_habits,
                 habit_completions, pc, local, ncalls, resp>>

\* POST /daily
UpdateDailyData(u, d, data) ==
  /\ UNCHANGED <<today, sync_coins, user_habits, habit_completions, pc, local, ncalls>>
  /\ IF u \notin Users
     THEN /\ resp' = Resp("update_daily_data", 404)
          /\ UNCHANGED <<daily_data, energy_level>>
     ELSE LET existing == daily_data[u][d].present
              \* `if update_fields:` guards the UPDATE
              updates == existing /\ UpdateFields(data) # {}
              row == IF updates THEN UpdatedRow(daily_data[u][d], data)
                     ELSE IF existing THEN daily_data[u][d]
                     ELSE InsertedRow(data)
              dd1 == [daily_data EXCEPT ![u][d] = row]
              r == UpdateEnergyLevel(dd1, energy_level, u, d)
          IN IF \/ updates /\ ExecuteRaises(UpdatePlaceholders(data), UpdateValues(data))
                \/ (updates \/ ~existing) /\ ~MoodAllowed(data.mood)
                \/ r.raised
             THEN \* except Exception: conn.rollback(); 500
                  /\ resp' = Resp("update_daily_data", 500)
                  /\ UNCHANGED <<daily_data, energy_level>>
             ELSE /\ daily_data' = r.daily_data
                  /\ energy_level' = r.energy_level
                  /\ resp' = Resp("update_daily_data", 200)

\* GET /daily/{user_id}
GetDailyData(u, d) ==
  /\ UNCHANGED <<today, energy_level, sync_coins, user_habits,
                 habit_completions, pc, local, ncalls>>
  /\ IF u \in Users /\ daily_data[u][d].present
     THEN /\ resp' = Resp("get_daily_data", 200)
          /\ UNCHANGED daily_data
     ELSE IF u \notin Users
     THEN \* the INSERT breaks REFERENCES users(id): rollback, 500
          /\ resp' = Resp("get_daily_data", 500)
          /\ UNCHANGED daily_data
     ELSE /\ daily_data' = [daily_data EXCEPT ![u][d] = DefaultRow]
          /\ resp' = Resp("get_daily_data", 200)

\* GET /dashboard/{user_id}
GetDashboard(u) ==
  /\ UNCHANGED <<today, energy_level, sync_coins, user_habits,
                 habit_completions, pc, local, ncalls>>
  /\ IF u \notin Users
     THEN \* HTTPException(404) is caught by `except Exception` and becomes 500
          /\ resp' = Resp("get_dashboard", 500)
          /\ UNCHANGED daily_data
     ELSE /\ daily_data' = IF daily_data[u][today].present THEN daily_data
                           ELSE [daily_data EXCEPT ![u][today] = DefaultRow]
          /\ resp' = Resp("get_dashboard", 200)

\* ------------------------------------------------- update_habit_streak
\* ids of the habit_completions rows of habit h dated d
RowsOf(rows, h, d) ==
  {i \in DOMAIN rows : rows[i].habit_id = h /\ rows[i].date = d}

\* the dates of a bag of rows, newest first (ORDER BY date DESC)
RECURSIVE DatesDesc(_, _)
DatesDesc(rows, I) ==
  IF I = {} THEN <<>>
  ELSE LET i == CHOOSE i \in I : \A j \in I : rows[i].date >= rows[j].date
       IN <<rows[i].date>> \o DatesDesc(rows, I \ {i})

\* faulty variant of Limit: every row is returned
LimitAll(seq, n) == seq
\* LIMIT n
Limit(seq, n) == SubSeq(seq, 1, Min2(Len(seq), n))

\* SELECT date ... WHERE habit_id = h AND is_completed = TRUE
\* ORDER BY date DESC LIMIT 7
RecentCompletions(rows, h) ==
  Limit(DatesDesc(rows, {i \in DOMAIN rows :
                           rows[i].habit_id = h /\ rows[i].is_completed}),
        StreakLimit)

\* the for loop: count positions i (from 0) with completions[i] = current_date - i
\* up to the first mismatch
RECURSIVE StreakLoop(_, _, _)
StreakLoop(completions, current_date, i) ==
  IF i > Len(completions) THEN 0
  ELSE IF completions[i] = current_date - (i - 1)
       THEN 1 + StreakLoop(completions, current_date, i + 1)
       ELSE 0

CurrentStreak(rows, h, current_date) ==
  StreakLoop(RecentCompletions(rows, h), current_date, 1)

\* faulty variants of Greatest: the new streak overwrites the stored maximum;
\* the stored maximum is never raised
GreatestOverwrites(a, b) == b
GreatestKeepsStored(a, b) == a
\* GREATEST(longest_streak, %s)
Greatest(a, b) == Max2(a, b)

\* update_habit_streak(habit_id, date_str, cursor) on tables uh, rows
UpdateHabitStreak(uh, rows, h, date) ==
  LET current_streak == CurrentStreak(rows, h, date)
  IN [uh EXCEPT ![h] = [current_streak |-> current_streak,
                        longest_streak |-> Greatest(@.longest_streak, current_streak)]]

\* ------------------------------------------ award_for_habit_completion
\* faulty variant of Least: the cap is not applied
LeastUncapped(a, b) == a
\* LEAST(energy_level + 3, 100)
Least(a, b) == Min2(a, b)
\* SET sync_coins = sync_coins + 2
AwardCoins(coins) == coins + CoinReward
\* SET energy_level = LEAST(energy_level + 3, 100)
AwardEnergy(energy) == Least(energy + EnergyBonus, EnergyCap)

\* ---------------------------------------------------- POST /habits/complete
\* lines 401-419: look the habit up, read date.today(), look for today's row.
\* fetchone() on several matching rows returns any one of them.
\* limit caps the calls that find their habit
CompleteHabitSelectUpTo(w, u, h, limit) ==
  /\ pc[w] = "idle"
  /\ UNCHANGED <<today, energy_level, sync_coins, daily_data, user_habits,
                 habit_completions>>
  /\ IF h \notin Habits \/ (h \in Habits /\ HabitOwner[h] # u)
     THEN /\ resp' = Resp("complete_habit", 404)
          /\ UNCHANGED <<pc, local, ncalls>>
     ELSE /\ ncalls < limit
          /\ ncalls' = ncalls + 1
          /\ \E e \in (IF RowsOf(habit_completions, h, today) = {} THEN {0}
                       ELSE RowsOf(habit_completions, h, today)) :
               local' = [local EXCEPT ![w] =
                           [user_id |-> u, habit_id |-> h, today |-> today,
                            existing |-> e]]
          /\ pc' = [pc EXCEPT ![w] = "selected"]
          /\ UNCHANGED resp

CompleteHabitSelect(w, u, h) == CompleteHabitSelectUpTo(w, u, h, MaxCompletions)

\* lines 421-440: UPDATE the row found or INSERT one, the streak, the reward,
\* commit
CompleteHabitWrite(w) ==
  /\ pc[w] = "selected"
  /\ LET l == local[w]
         rows == IF l.existing # 0
                 THEN [habit_completions EXCEPT ![l.existing].is_completed = TRUE]
                 ELSE Append(habit_completions,
                             [habit_id |-> l.habit_id, date |-> l.today,
                              is_completed |-> TRUE])
     IN /\ habit_completions' = rows
        /\ user_habits' = UpdateHabitStreak(user_habits, rows, l.habit_id, l.today)
        /\ sync_coins' = [sync_coins EXCEPT ![l.user_id] = AwardCoins(@)]
        /\ energy_level' = [energy_level EXCEPT ![l.user_id] = AwardEnergy(@)]
        /\ resp' = Resp("complete_habit", 200)
  /\ pc' = [pc EXCEPT ![w] = "idle"]
  /\ local' = [local EXCEPT ![w] = NoLocal]
  /\ UNCHANGED <<today, daily_data, ncalls>>

\* faulty variant of Rollback: what the transaction wrote stays
RollbackKeeps(before, after) == after
\* conn.rollback(): the table is as it was before the transaction
Rollback(before, after) == before

\* lines 421-448: the database raises at a statement after the reads (the
\* connection is lost, the statement is cancelled); whatever the statements
\* before it wrote is rolled back and the answer is 500
CompleteHabitFail(w) ==
  /\ pc[w] = "selected"
  /\ LET l == local[w]
         rows == IF l.existing # 0
                 THEN [habit_completions EXCEPT ![l.existing].is_completed = TRUE]
                 ELSE Append(habit_completions,
                             [habit_id |-> l.habit_id, date |-> l.today,
                              is_completed |-> TRUE])
     IN /\ habit_completions' = Rollback(habit_completions, rows)
        /\ user_habits' = Rollback(user_habits,
                                   UpdateHabitStreak(user_habits, rows, l.habit_id, l.today))
        /\ sync_coins' = Rollback(sync_coins,
                                  [sync_coins EXCEPT ![l.user_id] = AwardCoins(@)])
        /\ energy_level' = Rollback(energy_level,
                                    [energy_level EXCEPT ![l.user_id] = AwardEnergy(@)])
  /\ resp' = Resp("complete_habit", 500)
  /\ pc' = [pc EXCEPT ![w] = "idle"]
  /\ local' = [local EXCEPT ![w] = NoLocal]
  /\ UNCHANGED <<today, daily_data, ncalls>>

\* GET /analytics/{user_id}: reads only
GetAnalytics(u) ==
  /\ UNCHANGED <<today, energy_level, sync_coins, daily_data, user_habits,
                 habit_completions, pc, local, ncalls>>
  /\ IF u \notin Users
     THEN \* HTTPException(404) is caught by `except Exception` and becomes 500
          resp' = Resp("get_analytics", 500)
     ELSE resp' = Resp("get_analytics", 200)

\* the whole service: daily requests carry no date (today) and one of three
\* bodies, and one complete_habit call is in flight at a time
Next ==
  \/ AdvanceDay(MaxServiceDay)
  \/ \E u \in Users, data \in {BodyFull, BodyGood, BodyNulls} : UpdateDailyData(u, today, data)
  \/ \E u \in Users : GetDailyData(u, today)
  \/ \E u \in UserIds : GetDashboard(u)
  \/ \E u \in UserIds, h \in HabitIds : CompleteHabitSelect(1, u, h)
  \/ CompleteHabitWrite(1)
  \/ CompleteHabitFail(1)

Spec == Init /\ [][Next]_vars

\* the daily-data handlers alone within one day, with every body and every
\* date for the registered user, and one request for an id no user has
DailyReads ==
  {[user_id |-> u, date |-> d] : u \in Users, d \in Days}
    \cup {[user_id |-> u, date |-> 0] : u \in UserIds \ Users}
DailyRequests ==
  {[user_id |-> u, date |-> d, body |-> b] : u \in Users, d \in Days, b \in DailyBodies}
    \cup {[user_id |-> u, date |-> 0, body |-> BodyDefaults] : u \in UserIds \ Users}
NextDaily ==
  \/ \E r \in DailyRequests : UpdateDailyData(r.user_id, r.date, r.body)
  \/ \E r \in DailyReads : GetDailyData(r.user_id, r.date)
  \/ \E u \in UserIds : GetDashboard(u)
  \/ \E u \in UserIds : GetAnalytics(u)

SpecDaily == Init /\ [][NextDaily]_vars

\* POST /daily again and again on the same records: the full body and the
\* partial requests for every date, and the reads that create a record lazily
UpdateRequests ==
  {[user_id |-> u, date |-> d, body |-> b] :
     u \in Users, d \in Days,
     b \in {BodyFull} \cup {DailyDataCreate(req) : req \in PartialRequests}}
NextUpdate ==
  \/ \E r \in UpdateRequests : UpdateDailyData(r.user_id, r.date, r.body)
  \/ \E r \in DailyReads : GetDailyData(r.user_id, r.date)

SpecUpdate == Init /\ [][NextUpdate]_vars

\* complete_habit alone, over a longer run of days
NextHabit ==
  \/ AdvanceDay(MaxHabitDay)
  \/ \E w \in Workers, u \in UserIds, h \in HabitIds : CompleteHabitSelect(w, u, h)
  \/ \E w \in Workers : CompleteHabitWrite(w)
  \/ \E w \in Workers : CompleteHabitFail(w)

SpecHabit == Init /\ [][NextHabit]_vars

\* one habit completed by one call at a time over more than a week
NextStreak ==
  \/ AdvanceDay(MaxStreakDay)
  \/ \E u \in UserIds, h \in HabitIds : CompleteHabitSelectUpTo(1, u, h, MaxStreakCalls)
  \/ CompleteHabitWrite(1)

SpecStreak == Init /\ [][NextStreak]_vars

\* daily writes for today between rewarded completions, one call at a time
NextEnergy ==
  \/ AdvanceDay(MaxServiceDay)
  \/ \E u \in Users, data \in {BodyFull, BodyGood, BodyNulls} : UpdateDailyData(u, today, data)
  \/ \E u \in Users, h \in Habits : CompleteHabitSelect(1, u, h)
  \/ CompleteHabitWrite(1)

SpecEnergy == Init /\ [][NextEnergy]_vars

\* =================================================================== claims
Rows == {daily_data[u][d] : u \in Users, d \in Days}
PresentRows == {row \in Rows : row.present}
Abs(x) == IF x < 0 THEN -x ELSE x
\* the mean of the balances of u's rows dated in W, to the hundredth
MeanBalance(dd, u, W) ==
  (2 * SumBalance(dd, u, W) + Cardinality(W)) \div (2 * Cardinality(W))
\* a POST /daily for user u and date d returns 200 in this step
DailyWritten(u, d) ==
  /\ resp'.status = 200
  /\ \E data \in DailyBodies : UpdateDailyData(u, d, data)

\* C1: for every daily record with non-negative steps, water_ml and
\* sleep_hours, each stored sub-score lies in [0, 25] and the stored
\* overall_balance lies in [0, 100].
C1_ScoresInRange ==
  \A row \in PresentRows :
    (row.steps >= 0 /\ row.water_ml >= 0 /\ Coalesce(row.sleep_hours, 0) >= 0)
      => /\ \A x \in {row.activity_score, row.nutrition_score,
                      row.recovery_score, row.mental_score} :
              0 <= x /\ x <= 2500
         /\ 0 <= row.overall_balance /\ row.overall_balance <= 10000

\* C2: the stored overall_balance of a record is the sum of its activity,
\* nutrition, recovery and mental scores (up to the rounding of the five
\* stored values to hundredths); water_ml adds nothing.
C2_BalanceIsSumOfFour ==
  \A row \in PresentRows :
    Abs(row.overall_balance
        - (row.activity_score + row.nutrition_score
           + row.recovery_score + row.mental_score)) <= 2

\* C3: in every reachable state each user's energy_level lies in [0, 100].
C3_EnergyInRange ==
  \A u \in Users : 0 <= energy_level[u] /\ energy_level[u] <= 10000

\* C4: after a successful update_daily_data for user u and date d, u's
\* energy_level is the mean of overall_balance over u's records dated
\* d-6 .. d, and of no other record.  (Stated for a mean that is not 0: the
\* mean of 0 is C5's case.)
C4_EnergyIsSevenDayMean ==
  [][\A u \in Users, d \in Days :
       DailyWritten(u, d) =>
         LET W == {x \in Days : daily_data'[u][x].present /\ d - 6 <= x /\ x <= d}
         IN SumBalance(daily_data', u, W) > 0
              => energy_level'[u] = MeanBalance(daily_data', u, W)]_vars

\* C5: update_energy_level stores the default 50.0 only when its window holds
\* no record; when the window holds a record, the stored energy_level is the
\* mean of the window's balances, also when that mean is 0.
C5_DefaultOnlyWhenWindowEmpty ==
  [][\A u \in Users, d \in Days :
       DailyWritten(u, d) =>
         LET W == WindowDates(daily_data', u, d)
         IN IF W = {} THEN energy_level'[u] = DefaultEnergy
            ELSE energy_level'[u] = MeanBalance(daily_data', u, W)]_vars

\* the number of consecutive days t, t-1, ... on each of which habit h has a
\* completed record
RECURSIVE ConsecutiveDays(_, _, _)
ConsecutiveDays(rows, h, t) ==
  IF \E i \in DOMAIN rows :
       rows[i].habit_id = h /\ rows[i].date = t /\ rows[i].is_completed
  THEN 1 + ConsecutiveDays(rows, h, t - 1)
  ELSE 0

\* C6: after a successful complete_habit on day t, the habit's current_streak
\* is the number of consecutive days ending at t on each of which the habit
\* has a completed record.  (Stated for a call that starts and ends on the
\* same day t.)
C6_StreakCountsConsecutiveDays ==
  [][\A w \in Workers :
       (CompleteHabitWrite(w) /\ local[w].today = today) =>
         user_habits'[local[w].habit_id].current_streak
           = ConsecutiveDays(habit_completions', local[w].habit_id, local[w].today)]_vars

\* C7: a habit's longest_streak never decreases, and each update_habit_streak
\* sets it to the larger of the stored longest_streak and the new current
\* streak.
C7_LongestNeverDecreases ==
  [][/\ \A h \in Habits :
          user_habits'[h].longest_streak >= user_habits[h].longest_streak
     /\ \A w \in Workers :
          CompleteHabitWrite(w) =>
            LET h == local[w].habit_id
            IN user_habits'[h].longest_streak
                 = Max2(user_habits[h].longest_streak, user_habits'[h].current_streak)]_vars

\* a streak of 2 was reached and then broken: the stored maximum is kept
C7_Witness ==
  /\ resp = Resp("complete_habit", 200)
  /\ user_habits[1].longest_streak = 2
  /\ user_habits[1].current_streak = 1

\* C8: in every reachable state each habit has
\* longest_streak >= current_streak >= 0.
C8_LongestAtLeastCurrent ==
  \A h \in Habits :
    /\ user_habits[h].longest_streak >= user_habits[h].current_streak
    /\ user_habits[h].current_streak >= 0

\* a habit completed on three days running
C8_Witness ==
  /\ resp = Resp("complete_habit", 200)
  /\ user_habits[1].current_streak = 3
  /\ user_habits[1].longest_streak = 3

\* C9: habit_completions holds at most one record per (habit, date).
C9_OneRecordPerHabitAndDate ==
  \A h \in Habits, d \in 0 .. MaxHabitDay :
    Cardinality(RowsOf(habit_completions, h, d)) <= 1

\* C10: each award_for_habit_completion adds exactly 2 to the user's
\* sync_coins and sets energy_level to min(energy_level + 3, 100).
C10_RewardIsTwoCoinsAndCappedEnergy ==
  [][\A w \in Workers :
       CompleteHabitWrite(w) =>
         LET u == local[w].user_id
         IN /\ sync_coins'[u] = sync_coins[u] + 2
            /\ energy_level'[u] = Min2(energy_level[u] + 300, 10000)]_vars

\* the one record has balance 95 and two rewards were paid since: the energy
\* went 95, 98, 100 (not 101) and the coins 0, 2, 4
C10_Witness ==
  /\ resp = Resp("complete_habit", 200)
  /\ PresentRows # {}
  /\ \A row \in PresentRows : row.overall_balance = 9500
  /\ sync_coins[1] = 4
  /\ energy_level[1] = EnergyCap

\* the distinct (habit, date) pairs of user u's completion records
CompletedPairs(u) ==
  {<<habit_completions[i].habit_id, habit_completions[i].date>> :
     i \in {j \in DOMAIN habit_completions :
              HabitOwner[habit_completions[j].habit_id] = u}}

\* C11: the completion reward is paid at most once per (habit, date): the
\* coins a user has received from completions are 2 times the number of
\* distinct (habit, date) completion records, so completing a habit again on
\* the same day adds no coins.
C11_RewardOncePerHabitAndDate ==
  \A u \in Users : sync_coins[u] = CoinReward * Cardinality(CompletedPairs(u))

\* C12: score and energy recomputation is idempotent: running
\* update_energy_level a second time for the same user and date, the facts
\* unchanged, leaves the four sub-scores, overall_balance and the user's
\* energy_level as the first run left them.
C12_RecomputationIsIdempotent ==
  \A u \in Users, d \in Days :
    LET once == UpdateEnergyLevel(daily_data, energy_level, u, d)
        twice == UpdateEnergyLevel(once.daily_data, once.energy_level, u, d)
    IN /\ twice.raised = once.raised
       /\ twice.daily_data = once.daily_data
       /\ twice.energy_level = once.energy_level

\* a record scored 125 next to another record of the window, the energy being
\* the mean that a run for that record stores
C12_Witness ==
  /\ resp = Resp("update_daily_data", 200)
  /\ \E u \in Users, d \in Days :
       /\ daily_data[u][d].present
       /\ daily_data[u][d].overall_balance = 12500
       /\ Cardinality(WindowDates(daily_data, u, d)) >= 2
       /\ energy_level[u] = NewEnergy(daily_data, u, d)
       /\ energy_level[u] # DefaultEnergy

C14_NegativeStepsRejected ==
  [][\A u \in Users, d \in Days :
       (~daily_data[u][d].present
          /\ UpdateDailyData(u, d, DailyDataCreate(ReqNegativeSteps)))
         => /\ resp'.status = 422
            /\ UNCHANGED <<daily_data, energy_level>>]_vars

\* a / b rounded to the nearest integer, halves up (a >= 0, b > 0)
RoundDiv(a, b) == (2 * a + b) \div (2 * b)
\* the reference formulas, in hundredths of a point: steps a count, sleep in
\* hundredths of an hour or NULL, n the number of true meal flags, mood a
\* string or NULL
RefActivity(steps) ==
  IF steps = 0 THEN 0 ELSE Min2(RoundDiv(steps * 2500, 10000), 2500)
RefRecovery(sleep) ==
  IF sleep = NULL \/ sleep = Some(0) THEN 0
  ELSE Min2(RoundDiv(sleep[1] * 25, 8), 2500)
RefNutrition(n) == RoundDiv(n * 2500, 3)
RefMental(mood) ==
  IF mood = Some("excellent") THEN 2500
  ELSE IF mood = Some("good") THEN 2000
  ELSE IF mood = Some("bad") THEN 500
  ELSE IF mood = Some("terrible") THEN 0
  ELSE 1500

\* C15: the sub-scores follow the reference formulas for every input:
\* activity = min(steps/10000*25, 25), recovery = min(sleep_hours/8*25, 25)
\* and 0 without sleep, nutrition = (true meal flags)/3*25, mental =
\* 25/20/15/5/0 by mood and 15 for an absent or unrecognized mood, which is
\* scored, not rejected.  (Stated for the first write of a date with
\* non-negative steps, leaving out the example body whose sum raises, C2.)
C15_SubScoresFollowReference ==
  [][\A u \in Users, d \in Days, data \in DailyBodies \ {BodyExample} :
       (/\ ~daily_data[u][d].present
        /\ PyOr(data.steps, 0) >= 0
        /\ UpdateDailyData(u, d, data))
         => LET row == daily_data'[u][d]
            IN /\ resp'.status = 200
               /\ row.present
               /\ row.activity_score = RefActivity(PyOr(data.steps, 0))
               /\ row.recovery_score = RefRecovery(data.sleep_hours)
               /\ row.nutrition_score
                    = RefNutrition(MealsCount([breakfast |-> PyOr(data.breakfast, FALSE),
                                               lunch |-> PyOr(data.lunch, FALSE),
                                               dinner |-> PyOr(data.dinner, FALSE)]))
               /\ row.mental_score = RefMental(data.mood)]_vars

\* C16: in every reachable state every daily_data record, one created lazily
\* by get_daily_data or get_dashboard included, stores the sub-scores and the
\* overall_balance that the recomputation from its facts gives (15 and 15 for
\* a record with no mood and no other facts).
C16_StoredScoresAreRecomputed ==
  \A row \in PresentRows : row = Scored(row)

\* C17: update_habit_streak looks at the 7 most recent completed dates only,
\* so in every reachable state current_streak <= 7, also for a habit
\* completed on more than 7 consecutive days.
C17_StreakAtMostSeven ==
  \A h \in Habits : user_habits[h].current_streak <= 7

\* the habit has a completed record on each of 8 or more consecutive days up
\* to today and the call that just returned stored a streak of 7
C17_Witness ==
  /\ resp = Resp("complete_habit", 200)
  /\ ConsecutiveDays(habit_completions, 1, today) >= 8
  /\ user_habits[1].current_streak = 7

\* the record that a POST /daily with body data leaves for (u, d) before it
\* is scored: the stored one with the supplied fields written, or a new one
Written(u, d, data) ==
  IF daily_data[u][d].present THEN UpdatedRow(daily_data[u][d], data)
  ELSE InsertedRow(data)

\* C18: for an existing user update_daily_data succeeds both when no record
\* exists for (user, date) and when one exists: then the supplied fields are
\* written to the record, scores and energy_level are recomputed, and the
\* change is committed.  (Stated for bodies with a mood of the list whose
\* score sum does not raise.)
C18_UpdateSucceedsOnExistingRecord ==
  [][\A u \in Users, d \in Days, data \in DailyBodies :
       (/\ MoodAllowed(data.mood)
        /\ OverallBalance(Facts(Written(u, d, data))).t # "TypeError"
        /\ UpdateDailyData(u, d, data))
         => LET dd1 == [daily_data EXCEPT ![u][d] = Scored(Written(u, d, data))]
            IN /\ resp'.status = 200
               /\ daily_data' = dd1
               /\ energy_level'[u] = NewEnergy(dd1, u, d)]_vars

\* the tables complete_habit writes
HabitTables == <<habit_completions, user_habits, sync_coins, energy_level>>

\* C19: complete_habit is all-or-nothing: when it fails (404 for a habit that
\* does not exist or is not the user's, 500 for any exception) no completion
\* record, streak counter, coin balance or energy_level change persists; when
\* it succeeds the completion record, the streak update and the reward are
\* committed together.
C19_CompleteHabitAllOrNothing ==
  [][\A w \in Workers :
       /\ CompleteHabitFail(w) => resp'.status = 500 /\ UNCHANGED HabitTables
       /\ \A u \in UserIds, h \in HabitIds :
            (CompleteHabitSelect(w, u, h) /\ (h \notin Habits \/ HabitOwner[h] # u))
              => resp'.status = 404 /\ UNCHANGED HabitTables
       /\ CompleteHabitWrite(w)
            => LET l == local[w]
               IN /\ resp'.status = 200
                  /\ \E i \in RowsOf(habit_completions', l.habit_id, l.today) :
                       habit_completions'[i].is_completed
                  /\ user_habits'[l.habit_id].current_streak
                       = CurrentStreak(habit_completions', l.habit_id, l.today)
                  /\ sync_coins'[l.user_id] = sync_coins[l.user_id] + 2
                  /\ energy_level'[l.user_id]
                       = Min2(energy_level[l.user_id] + 300, 10000)]_vars

\* one call succeeded and a later call failed: the tables hold the one
\* record, its streak and its reward, and nothing of the failed call
C19_Witness ==
  /\ resp = Resp("complete_habit", 500)
  /\ ncalls = 2
  /\ Len(habit_completions) = 1
  /\ user_habits[1] = [current_streak |-> 1, longest_streak |-> 1]
  /\ sync_coins[1] = 2
  /\ energy_level[1] = 5300

\* C20: every endpoint that checks that the user exists (update_daily_data,
\* get_analytics, get_dashboard among them) answers a request for a user that
\* does not exist with 404 and changes no state.
C20_UnknownUserIs404 ==
  [][\A u \in UserIds \ Users :
       (\/ GetDashboard(u)
        \/ GetAnalytics(u)
        \/ \E r \in DailyRequests :
             r.user_id = u /\ UpdateDailyData(u, r.date, r.body))
         => /\ resp'.status = 404
            /\ UNCHANGED <<today, energy_level, sync_coins, daily_data,
                           user_habits, habit_completions>>]_vars

\* what the records of user u alone give for a write of date d: the mean of
\* the balances the query of update_energy_level selects, 50.0 for none or
\* for a mean of 0
EnergyFromRecords(dd, u, d) ==
  LET W == WindowDates(dd, u, d)
  IN IF W = {} \/ SumBalance(dd, u, W) = 0 THEN 5000
     ELSE MeanBalance(dd, u, W)

\* C21: the energy recomputation replaces the previous value: after a
\* successful update_daily_data the user's energy_level is a function of that
\* user's daily_data records only (and of the date written), so a prior
\* energy_level that differs, by earlier +3 completion bonuses say, ends in
\* the same energy_level.
C21_EnergyReplacedNotAccumulated ==
  [][\A u \in Users :
       (/\ resp' = Resp("update_daily_data", 200)
        /\ \E data \in {BodyFull, BodyGood, BodyNulls} :
             UpdateDailyData(u, today, data))
         => /\ energy_level'[u] = EnergyFromRecords(daily_data', u, today)
            /\ \A e \in {0, 5300, 10000} :
                 UpdateEnergyLevel(daily_data', [energy_level EXCEPT ![u] = e],
                                   u, today).energy_level[u]
                   = energy_level'[u]]_vars

\* a completion was rewarded (coins 2, energy + 3) before the write that just
\* returned: the one record has balance 95 and the energy is 95, the bonus gone
C21_Witness ==
  /\ resp = Resp("update_daily_data", 200)
  /\ sync_coins[1] >= 2
  /\ PresentRows # {}
  /\ \A row \in PresentRows : row.overall_balance = 9500
  /\ energy_level[1] = 9500

====
